---- MODULE Spec2Model ----
(***************************************************************************)
(* Model of examples/visualization/3d_to_2d.py: one run of the example     *)
(* script, statement by statement, from line 51 to line 136.               *)
(*                                                                         *)
(* The script's own statements (their order, their arguments, the names it *)
(* builds, the array it stacks) are modelled from the source.  The library *)
(* routines it calls (mne, numpy, matplotlib) are not part of the source   *)
(* file; they are modelled by their documented effect on the values the    *)
(* script handles, and each of them may raise.                             *)
(***************************************************************************)
EXTENDS Integers, Sequences, FiniteSets, TLC

(* ------------------------------------------------------------------ *)
(* Bounds of the model                                                 *)
(* ------------------------------------------------------------------ *)

\* largest number of non-grid channels in the recording file
MaxExtra == 1
\* largest number of digitised points in the layout file
MaxLayoutPts == 2
\* layout coordinates are fractions k / LayoutUnit of the image, k in 0..LayoutUnit
LayoutUnit == 4

(* ------------------------------------------------------------------ *)
(* Helpers                                                             *)
(* ------------------------------------------------------------------ *)

Range(s) == {s[i] : i \in 1..Len(s)}

DigitChar == <<"0", "1", "2", "3", "4", "5", "6", "7", "8", "9">>

\* str(n) for n >= 0: the decimal digits of n, most significant first
RECURSIVE Digits(_)
Digits(n) == IF n < 10 THEN <<DigitChar[n + 1]>>
             ELSE Append(Digits(n \div 10), DigitChar[(n % 10) + 1])

\* f"{prefix}{i}", a channel name as a sequence of characters
Name(prefix, i) == <<prefix>> \o Digits(i)

\* range(a, b) of Python: a, a+1, ..., b-1
PyRange(a, b) == [k \in 1..(IF b > a THEN b - a ELSE 0) |-> a + k - 1]

(* ------------------------------------------------------------------ *)
(* Names set up by lines 36-42 and the argument of pick_channels       *)
(* ------------------------------------------------------------------ *)

ecog_data_fname == "ecog/sample_ecog_ieeg.fif"
layout_file == "data/image/custom_layout.lout"

\* range(1, 257) on line 52
GridStart == 1
GridStop == 257

\* a slip in the range: range(0, 256)
GridNamesOffByOne == [k \in 1..Len(PyRange(GridStart - 1, GridStop - 1)) |->
                        Name("G", PyRange(GridStart - 1, GridStop - 1)[k])]

\* [f"G{i}" for i in range(1, 257)]
GridNames == [k \in 1..Len(PyRange(GridStart, GridStop)) |->
                Name("G", PyRange(GridStart, GridStop)[k])]

\* the statements of the script, in source order
Steps == << "read_raw_fif", "pick_channels", "get_montage",
            "estimate_head_mri_t", "apply_trans", "plot_alignment",
            "set_3d_view", "snapshot_brain_montage", "xy_pts", "load_data",
            "beta_power", "beta_max", "scatter1", "read_layout",
            "layout_xy", "scatter2" >>

None == "None"

VARIABLES
  disk,          \* contents of the two files the script reads (never changes)
  lib,           \* behaviour of the installed library (never changes)
  pc,            \* index in Steps of the next statement
  status,        \* "running", "failed" (uncaught exception) or "done"
  executed,      \* statements entered so far, in order of execution
  raised,        \* statements at which an exception was raised
  raw,           \* the Raw object: channel names, types and data
  requested,     \* the list handed to pick_channels
  montage,       \* the DigMontage: coordinate frame and channel positions
  trans,         \* the head->mri Transform
  applied,       \* number of times a transform was applied to montage
  fig,           \* the 3D figure of plot_alignment
  snapshotArg,   \* the montage as it was when handed to snapshot_brain_montage
  xy,            \* dict: channel name -> 2D point on the image
  im,            \* the snapshot image (its shape)
  xy_pts,        \* array of 2D rows
  beta_power,    \* array of beta power
  lt,            \* the layout read from layout_file
  layout_pts,    \* x, y of lines 130-131
  plots,         \* matplotlib figures drawn, in order
  filesRead,     \* files opened for reading
  filesWritten   \* files opened for writing

ctl == <<pc, status, executed, raised>>
env == <<disk, lib>>
vars == <<disk, lib, pc, status, executed, raised, raw, requested, montage,
          trans, applied, fig, snapshotArg, xy, im, xy_pts, beta_power, lt,
          layout_pts, plots, filesRead, filesWritten>>

(* ------------------------------------------------------------------ *)
(* The files on disk and the installed library                         *)
(* ------------------------------------------------------------------ *)

\* channel list of a recording: grid channels G<lo>..G<hi> and nExtra others
FileChannels(lo, hi, nExtra, extrasFirst) ==
  LET grid == [k \in 1..(hi - lo + 1) |-> Name("G", lo + k - 1)]
      extras == [k \in 1..nExtra |-> Name("E", k)]
  IN IF extrasFirst THEN extras \o grid ELSE grid \o extras

\* a recording file: channel names, channel types and 3D sensor locations
Recording(chs, nonEcog) ==
  [ ch_names |-> chs,
    kind |-> [n \in Range(chs) |-> IF n \in nonEcog THEN "misc" ELSE "ecog"],
    loc |-> [n \in Range(chs) |->
               LET k == CHOOSE i \in 1..Len(chs) : chs[i] = n
               IN <<k % 16, k \div 16, 0>>] ]

Recordings ==
  { Recording(FileChannels(lo, hi, nExtra, extrasFirst), nonEcog) :
      lo \in (GridStart - 1)..(GridStart + 1),
      hi \in (GridStop - 2)..GridStop,
      nExtra \in 0..MaxExtra,
      extrasFirst \in BOOLEAN,
      nonEcog \in {{}, {Name("G", GridStart + 1)}} }

\* a layout file: n points, coordinates in units of 1 / LayoutUnit
Layouts ==
  { [k \in 1..n |-> <<k % (LayoutUnit + 1), (LayoutUnit - k) % (LayoutUnit + 1)>>] :
      n \in 0..MaxLayoutPts }

\* the library: whether pick_channels keeps the requested order and rejects
\* missing names (ordered=True) or keeps the file order and ignores them, and
\* the pixel size of a snapshot
Libraries == { [ordered |-> o, imShape |-> <<600, 800>>] : o \in BOOLEAN }

NoRaw == [ch_names |-> <<>>, kind |-> <<>>, loc |-> <<>>, preload |-> FALSE,
          proc |-> <<>>]
NoMontage == [coord_frame |-> None, ch_pos |-> <<>>]
NoTrans == [fro |-> None, to |-> None, shift |-> <<0, 0, 0>>]
NoFig == [kind |-> None, sensors |-> {}, view |-> <<0, 0>>]
NoArray == [ch_names |-> <<>>, ndim |-> 0, proc |-> <<>>]

Init ==
  /\ disk \in [ecog : Recordings, layout : Layouts]
  /\ lib \in Libraries
  /\ pc = 1
  /\ status = "running"
  /\ executed = <<>>
  /\ raised = <<>>
  /\ raw = NoRaw
  /\ requested = <<>>
  /\ montage = NoMontage
  /\ trans = NoTrans
  /\ applied = 0
  /\ fig = NoFig
  /\ snapshotArg = NoMontage
  /\ xy = <<>>
  /\ im = [shape |-> <<>>]
  /\ xy_pts = <<>>
  /\ beta_power = NoArray
  /\ lt = [pos |-> <<>>]
  /\ layout_pts = <<>>
  /\ plots = <<>>
  /\ filesRead = {}
  /\ filesWritten = {}

(* ------------------------------------------------------------------ *)
(* Control: statements run one after the other; an exception that      *)
(* nothing catches ends the run                                        *)
(* ------------------------------------------------------------------ *)

\* the interpreter is about to run statement s
Enter(s) == status = "running" /\ pc <= Len(Steps) /\ Steps[pc] = s

\* a statement that falls through past the statement after it
AdvanceSkipping ==
  /\ pc' = IF pc + 2 <= Len(Steps) + 1 THEN pc + 2 ELSE pc + 1
  /\ executed' = Append(executed, Steps[pc])
  /\ status' = IF pc + 2 >= Len(Steps) + 1 THEN "done" ELSE "running"
  /\ raised' = raised

\* the statement completed: go on with the next one, or finish
Advance ==
  /\ pc' = pc + 1
  /\ executed' = Append(executed, Steps[pc])
  /\ status' = IF pc = Len(Steps) THEN "done" ELSE "running"
  /\ raised' = raised

\* the exception is caught (try/except around the call) and the run goes on
RaiseCaught ==
  /\ raised' = Append(raised, Steps[pc])
  /\ executed' = Append(executed, Steps[pc])
  /\ pc' = pc + 1
  /\ status' = IF pc = Len(Steps) THEN "done" ELSE "running"

\* the statement raised; the script has no try/except, so the run ends here
Raise ==
  /\ raised' = Append(raised, Steps[pc])
  /\ executed' = Append(executed, Steps[pc])
  /\ pc' = pc
  /\ status' = "failed"

\* statement s completed normally in this run
Done(s) ==
  \E i \in 1..Len(executed) :
     /\ executed[i] = s
     /\ \A j \in 1..Len(raised) : raised[j] # s

(* ------------------------------------------------------------------ *)
(* Library routines, by their effect on the values the script handles  *)
(* ------------------------------------------------------------------ *)

\* mne.io.read_raw_fif(fname): the recording, data not loaded
read_raw_fif(rec) ==
  [ch_names |-> rec.ch_names, kind |-> rec.kind, loc |-> rec.loc,
   preload |-> FALSE, proc |-> <<>>]

\* Raw.pick_channels(names) rejects the call (ordered=True, a name is missing)
pick_channels_accepts(r, names, ordered) ==
  ordered => Range(names) \subseteq Range(r.ch_names)

\* Raw.pick_channels(names): the raw object restricted to the named channels
pick_channels(r, names, ordered) ==
  LET kept == IF ordered THEN names
              ELSE SelectSeq(r.ch_names, LAMBDA n : n \in Range(names))
  IN [r EXCEPT !.ch_names = kept,
               !.kind = [n \in Range(kept) |-> r.kind[n]],
               !.loc = [n \in Range(kept) |-> r.loc[n]]]

\* Raw.get_montage(): positions of the channels that carry a sensor position
\* (ecog here), in the 'head' frame a FIF recording stores them in
get_montage(r) ==
  [coord_frame |-> "head",
   ch_pos |-> [n \in {m \in Range(r.ch_names) : r.kind[m] = "ecog"} |-> r.loc[n]]]

\* mne.coreg.estimate_head_mri_t(subject, subjects_dir)
estimate_head_mri_t == [fro |-> "head", to |-> "mri", shift |-> <<1, 2, 3>>]

\* DigMontage.apply_trans(t) accepts t when one of its frames is the montage's
apply_trans_accepts(m, t) == m.coord_frame \in {t.fro, t.to}

\* DigMontage.apply_trans(t): t (or its inverse) moves every position
apply_trans(m, t) ==
  LET fwd == m.coord_frame = t.fro
      sgn == IF fwd THEN 1 ELSE -1
  IN [coord_frame |-> IF fwd THEN t.to ELSE t.fro,
      ch_pos |-> [n \in DOMAIN m.ch_pos |->
                    <<m.ch_pos[n][1] + sgn * t.shift[1],
                      m.ch_pos[n][2] + sgn * t.shift[2],
                      m.ch_pos[n][3] + sgn * t.shift[3]>>]]

\* mne.viz.plot_alignment(info, trans=...): a 3D figure showing info's sensors
plot_alignment(r, t) ==
  [kind |-> "3d",
   sensors |-> {n \in Range(r.ch_names) : r.kind[n] = "ecog"},
   view |-> <<0, 0>>]

\* mne.viz.snapshot_brain_montage(fig, montage): for every channel of the
\* montage, its position on the 2D image of the figure
snapshot_xy(f, m) ==
  [n \in DOMAIN m.ch_pos |-> <<m.ch_pos[n][1] + f.view[1], m.ch_pos[n][2] + f.view[2]>>]

\* numpy.vstack(rows): needs at least one row
vstack_accepts(rows) == Len(rows) > 0

(* ------------------------------------------------------------------ *)
(* The statements of the script                                        *)
(* ------------------------------------------------------------------ *)

\* line 51: raw = read_raw_fif(ecog_data_fname)
read_raw_fif_step ==
  /\ Enter("read_raw_fif")
  /\ \/ /\ raw' = read_raw_fif(disk.ecog)
        /\ filesRead' = filesRead \cup {ecog_data_fname}
        /\ Advance
     \/ /\ Raise
        /\ UNCHANGED <<raw, filesRead>>
  /\ UNCHANGED <<env, requested, montage, trans, applied, fig, snapshotArg, xy,
                 im, xy_pts, beta_power, lt, layout_pts, plots, filesWritten>>

\* line 52: raw.pick_channels([f"G{i}" for i in range(1, 257)])
pick_channels_step ==
  /\ Enter("pick_channels")
  /\ requested' = GridNames
  /\ \/ /\ Raise
        /\ UNCHANGED raw
     \/ /\ pick_channels_accepts(raw, GridNames, lib.ordered)
        /\ raw' = pick_channels(raw, GridNames, lib.ordered)
        /\ Advance
  /\ UNCHANGED <<env, montage, trans, applied, fig, snapshotArg, xy, im, xy_pts,
                 beta_power, lt, layout_pts, plots, filesRead, filesWritten>>

\* line 58: montage = raw.get_montage()
get_montage_step ==
  /\ Enter("get_montage")
  /\ \/ /\ montage' = get_montage(raw)
        /\ Advance
     \/ /\ Raise
        /\ UNCHANGED montage
  /\ UNCHANGED <<env, raw, requested, trans, applied, fig, snapshotArg, xy, im,
                 xy_pts, beta_power, lt, layout_pts, plots, filesRead,
                 filesWritten>>

\* line 59: trans = mne.coreg.estimate_head_mri_t("sample_ecog", subjects_dir)
estimate_head_mri_t_step ==
  /\ Enter("estimate_head_mri_t")
  /\ \/ /\ trans' = estimate_head_mri_t
        /\ Advance
     \/ /\ Raise
        /\ UNCHANGED trans
  /\ UNCHANGED <<env, raw, requested, montage, applied, fig, snapshotArg, xy, im,
                 xy_pts, beta_power, lt, layout_pts, plots, filesRead,
                 filesWritten>>

\* line 60 left out: the montage stays as get_montage returned it
apply_trans_step_missing ==
  /\ Enter("apply_trans")
  /\ Advance
  /\ UNCHANGED <<env, raw, requested, montage, applied, trans, fig, snapshotArg,
                 xy, im, xy_pts, beta_power, lt, layout_pts, plots, filesRead,
                 filesWritten>>

\* line 60: montage.apply_trans(trans)
apply_trans_step ==
  /\ Enter("apply_trans")
  /\ \/ /\ apply_trans_accepts(montage, trans)
        /\ montage' = apply_trans(montage, trans)
        /\ applied' = applied + 1
        /\ Advance
     \/ /\ Raise
        /\ UNCHANGED <<montage, applied>>
  /\ UNCHANGED <<env, raw, requested, trans, fig, snapshotArg, xy, im, xy_pts,
                 beta_power, lt, layout_pts, plots, filesRead, filesWritten>>

\* lines 71-77: fig = plot_alignment(raw.info, trans=trans, ...)
plot_alignment_step ==
  /\ Enter("plot_alignment")
  /\ \/ /\ fig' = plot_alignment(raw, trans)
        /\ Advance
     \/ /\ Raise
        /\ UNCHANGED fig
  /\ UNCHANGED <<env, raw, requested, montage, trans, applied, snapshotArg, xy,
                 im, xy_pts, beta_power, lt, layout_pts, plots, filesRead,
                 filesWritten>>

\* line 78: set_3d_view(figure=fig, azimuth=20, elevation=80)
set_3d_view_step ==
  /\ Enter("set_3d_view")
  /\ \/ /\ fig' = [fig EXCEPT !.view = <<20, 80>>]
        /\ Advance
     \/ /\ Raise
        /\ UNCHANGED fig
  /\ UNCHANGED <<env, raw, requested, montage, trans, applied, snapshotArg, xy,
                 im, xy_pts, beta_power, lt, layout_pts, plots, filesRead,
                 filesWritten>>

\* line 79: xy, im = snapshot_brain_montage(fig, montage)
snapshot_brain_montage_step ==
  /\ Enter("snapshot_brain_montage")
  /\ \/ /\ xy' = snapshot_xy(fig, montage)
        /\ im' = [shape |-> lib.imShape]
        /\ snapshotArg' = montage
        /\ Advance
     \/ /\ Raise
        /\ UNCHANGED <<xy, im, snapshotArg>>
  /\ UNCHANGED <<env, raw, requested, montage, trans, applied, fig, xy_pts,
                 beta_power, lt, layout_pts, plots, filesRead, filesWritten>>

\* [xy[ch] for ch in raw.ch_names] of line 82
xy_rows(d, names) == [i \in 1..Len(names) |-> d[names[i]]]

\* line 82 with the channels that xy lacks left out instead of a KeyError
xy_pts_step_skipping ==
  /\ Enter("xy_pts")
  /\ xy_pts' = xy_rows(xy, SelectSeq(raw.ch_names, LAMBDA n : n \in DOMAIN xy))
  /\ Advance
  /\ UNCHANGED <<env, raw, requested, montage, trans, applied, fig, snapshotArg,
                 xy, im, beta_power, lt, layout_pts, plots, filesRead,
                 filesWritten>>

\* line 82: xy_pts = np.vstack([xy[ch] for ch in raw.ch_names])
\* xy[ch] is a KeyError for a channel that is no key of xy
xy_pts_step ==
  /\ Enter("xy_pts")
  /\ \/ /\ Range(raw.ch_names) \subseteq DOMAIN xy
        /\ vstack_accepts(raw.ch_names)
        /\ xy_pts' = xy_rows(xy, raw.ch_names)
        /\ Advance
     \/ /\ ~ (Range(raw.ch_names) \subseteq DOMAIN xy /\ vstack_accepts(raw.ch_names))
        /\ Raise
        /\ UNCHANGED xy_pts
  /\ UNCHANGED <<env, raw, requested, montage, trans, applied, fig, snapshotArg,
                 xy, im, beta_power, lt, layout_pts, plots, filesRead,
                 filesWritten>>

\* line 85: raw.load_data()
load_data_step ==
  /\ Enter("load_data")
  /\ \/ /\ raw' = [raw EXCEPT !.preload = TRUE]
        /\ filesRead' = filesRead \cup {ecog_data_fname}
        /\ Advance
     \/ /\ Raise
        /\ UNCHANGED <<raw, filesRead>>
  /\ UNCHANGED <<env, requested, montage, trans, applied, fig, snapshotArg, xy,
                 im, xy_pts, beta_power, lt, layout_pts, plots, filesWritten>>

\* line 86: beta_power = raw.filter(20, 30).apply_hilbert(envelope=True).get_data()
\* filter and apply_hilbert work in place on loaded data; get_data returns
\* one row per channel of raw
beta_power_step ==
  /\ Enter("beta_power")
  /\ \/ /\ raw.preload
        /\ raw' = [raw EXCEPT !.proc = raw.proc \o <<"filter(20,30)", "envelope">>]
        /\ beta_power' = [ch_names |-> raw.ch_names, ndim |-> 2, proc |-> raw'.proc]
        /\ Advance
     \/ /\ Raise
        /\ UNCHANGED <<raw, beta_power>>
  /\ UNCHANGED <<env, requested, montage, trans, applied, fig, snapshotArg, xy,
                 im, xy_pts, lt, layout_pts, plots, filesRead, filesWritten>>

\* line 87: beta_power = beta_power.max(axis=1)
beta_max_step ==
  /\ Enter("beta_max")
  /\ \/ /\ beta_power.ndim = 2
        /\ beta_power' = [beta_power EXCEPT !.ndim = 1,
                                            !.proc = beta_power.proc \o <<"max(axis=1)">>]
        /\ Advance
     \/ /\ Raise
        /\ UNCHANGED beta_power
  /\ UNCHANGED <<env, raw, requested, montage, trans, applied, fig, snapshotArg,
                 xy, im, xy_pts, lt, layout_pts, plots, filesRead, filesWritten>>

\* lines 90-97 with the savefig of line 97 left in
scatter1_step_saving ==
  /\ Enter("scatter1")
  /\ plots' = Append(plots, [by |-> "scatter1", image |-> im.shape,
                             points |-> xy_pts, colour |-> beta_power.ch_names])
  /\ filesWritten' = filesWritten \cup {"./brain.png"}
  /\ Advance
  /\ UNCHANGED <<env, raw, requested, montage, trans, applied, fig, snapshotArg,
                 xy, im, xy_pts, beta_power, lt, layout_pts, filesRead>>

\* lines 90-95: fig2, ax = plt.subplots(...); ax.imshow(im);
\* ax.scatter(*xy_pts.T, c=beta_power, ...); colorbar; line 97 is a comment
scatter1_step ==
  /\ Enter("scatter1")
  /\ \/ /\ Len(xy_pts) = Len(beta_power.ch_names)
        /\ plots' = Append(plots, [by |-> "scatter1", image |-> im.shape,
                                   points |-> xy_pts,
                                   colour |-> beta_power.ch_names])
        /\ Advance
     \/ /\ Raise
        /\ UNCHANGED plots
  /\ UNCHANGED <<env, raw, requested, montage, trans, applied, fig, snapshotArg,
                 xy, im, xy_pts, beta_power, lt, layout_pts, filesRead,
                 filesWritten>>

\* line 129: lt = mne.channels.read_layout(layout_path / layout_name, scale=False)
\* (lines 115-126, which would click and save a layout, are comments)
read_layout_step ==
  /\ Enter("read_layout")
  /\ \/ /\ lt' = [pos |-> disk.layout]
        /\ filesRead' = filesRead \cup {layout_file}
        /\ Advance
     \/ /\ Raise
        /\ UNCHANGED <<lt, filesRead>>
  /\ UNCHANGED <<env, raw, requested, montage, trans, applied, fig, snapshotArg,
                 xy, im, xy_pts, beta_power, layout_pts, plots, filesWritten>>

\* lines 130-131: x = lt.pos[:, 0] * im.shape[1]; y = (1 - lt.pos[:, 1]) * im.shape[0]
\* (in units of 1 / LayoutUnit pixel)
layout_xy_step ==
  /\ Enter("layout_xy")
  /\ layout_pts' = [i \in 1..Len(lt.pos) |->
                      << lt.pos[i][1] * im.shape[2],
                         (LayoutUnit - lt.pos[i][2]) * im.shape[1] >>]
  /\ Advance
  /\ UNCHANGED <<env, raw, requested, montage, trans, applied, fig, snapshotArg,
                 xy, im, xy_pts, beta_power, lt, plots, filesRead, filesWritten>>

\* lines 132-136: fig, ax = plt.subplots(); ax.imshow(im); ax.scatter(x, y, ...)
scatter2_step ==
  /\ Enter("scatter2")
  /\ \/ /\ fig' = [kind |-> "2d", sensors |-> {}, view |-> <<0, 0>>]
        /\ plots' = Append(plots, [by |-> "scatter2", image |-> im.shape,
                                   points |-> layout_pts, colour |-> <<>>])
        /\ Advance
     \/ /\ Raise
        /\ UNCHANGED <<fig, plots>>
  /\ UNCHANGED <<env, raw, requested, montage, trans, applied, snapshotArg, xy,
                 im, xy_pts, beta_power, lt, layout_pts, filesRead, filesWritten>>

Next ==
  \/ read_raw_fif_step
  \/ pick_channels_step
  \/ get_montage_step
  \/ estimate_head_mri_t_step
  \/ apply_trans_step
  \/ plot_alignment_step
  \/ set_3d_view_step
  \/ snapshot_brain_montage_step
  \/ xy_pts_step
  \/ load_data_step
  \/ beta_power_step
  \/ beta_max_step
  \/ scatter1_step
  \/ read_layout_step
  \/ layout_xy_step
  \/ scatter2_step

Spec == Init /\ [][Next]_vars

(* ------------------------------------------------------------------ *)
(* Properties                                                          *)
(* ------------------------------------------------------------------ *)

\* position of statement s in the script
StepIndex(s) == CHOOSE i \in 1..Len(Steps) : Steps[i] = s

\* the statements run so far are the first ones of the script, in source
\* order, each once
ExecutedInOrder ==
  /\ Len(executed) <= Len(Steps)
  /\ executed = SubSeq(Steps, 1, Len(executed))
  /\ status = "running" => pc = Len(executed) + 1
  /\ status = "done" <=> (executed = Steps /\ raised = <<>>)

\* a run that has neither failed nor reached the end can take its next
\* statement (every statement adds one entry to executed, which holds at most
\* Len(Steps) entries, so such a run reaches the end)
NeverStuck == status = "running" => (pc <= Len(Steps) /\ ENABLED Next)

\* every step of the run enters exactly one statement, the one pc points at,
\* and pc never moves anywhere but to the statement after it
OneStatementForward ==
  /\ executed' = Append(executed, Steps[pc])
  /\ pc' \in {pc, pc + 1}
  /\ pc' = pc => status' = "failed"

\* C1: the run is one linear sequence of statements: each statement is
\* executed at most once, strictly in source order, with no branch, loop or
\* re-entry between statements, and a run in which no statement fails
\* reaches the end after the last statement.
C1_LinearRun ==
  /\ []ExecutedInOrder
  /\ [][OneStatementForward]_vars
  /\ []NeverStuck

\* C1 witness: a complete run, every statement executed, none failed
C1_Witness == status = "done" /\ executed = Steps /\ Len(plots) = 2

FailureEndsRun ==
  raised # <<>> =>
    /\ status = "failed"
    /\ Len(raised) = 1
    /\ executed[Len(executed)] = raised[1]
    /\ pc = StepIndex(raised[1])
    /\ \A i \in 1..Len(plots) : StepIndex(plots[i].by) < pc
    /\ layout_file \in filesRead => StepIndex("read_layout") < pc
    /\ ecog_data_fname \in filesRead => StepIndex("read_raw_fif") < pc

\* C3: the script handles no error: a failing library call ends the run at
\* that statement, and no later statement (no later plot, no later file
\* read) is executed.
C3_FailureStopsRun ==
  /\ []FailureEndsRun
  /\ [][raised = <<>>]_vars

\* C3 witness: plot_alignment raised; nothing was plotted, the layout unread
C3_Witness ==
  /\ status = "failed"
  /\ raised = <<"plot_alignment">>
  /\ plots = <<>>
  /\ layout_file \notin filesRead
  /\ ecog_data_fname \in filesRead

\* C4: the montage taken from raw is in 'head' space, the head->mri
\* transform is applied to it exactly once, before snapshot_brain_montage,
\* and the montage handed to snapshot_brain_montage is in 'mri' space.
C4_SnapshotInMri ==
  /\ applied <= 1
  /\ (Done("get_montage") /\ ~Done("apply_trans")) => montage.coord_frame = "head"
  /\ Done("apply_trans") => (trans.fro = "head" /\ trans.to = "mri")
  /\ Done("snapshot_brain_montage") =>
       /\ applied = 1
       /\ snapshotArg.coord_frame = "mri"
       /\ snapshotArg = montage

\* C4 witness: the snapshot was taken of a non-empty montage in 'mri' space
C4_Witness ==
  /\ Done("snapshot_brain_montage")
  /\ snapshotArg.coord_frame = "mri"
  /\ DOMAIN snapshotArg.ch_pos # {}

\* C5: snapshot_brain_montage returns a 2D image and 2D positions, and
\* xy_pts has exactly one 2D row per channel of raw.ch_names, in that
\* order; it is built only when every channel of raw is a key of xy.
C5_OneRowPerChannel ==
  /\ Done("snapshot_brain_montage") =>
       /\ Len(im.shape) = 2
       /\ \A n \in DOMAIN xy : Len(xy[n]) = 2
  /\ Done("xy_pts") =>
       /\ Range(raw.ch_names) \subseteq DOMAIN xy
       /\ Len(xy_pts) = Len(raw.ch_names)
       /\ \A i \in 1..Len(xy_pts) :
            /\ Len(xy_pts[i]) = 2
            /\ xy_pts[i] = xy[raw.ch_names[i]]
  /\ ("xy_pts" \in Range(executed) /\ ~(Range(raw.ch_names) \subseteq DOMAIN xy))
       => "xy_pts" \in Range(raised)

\* C5 witness: xy_pts was built for a raw object that dropped channels
C5_Witness ==
  /\ Done("xy_pts")
  /\ Len(xy_pts) > 1
  /\ Len(raw.ch_names) < Len(disk.ecog.ch_names)

\* C6: the names handed to pick_channels are exactly G1..G256 (256 names,
\* G1 and G256 among them, G0 and G257 not), raw holds only channels of
\* that grid afterwards, and every later statement works on those channels.
C6_OneGrid ==
  /\ "pick_channels" \in Range(executed) =>
       /\ Len(requested) = 256
       /\ Cardinality(Range(requested)) = 256
       /\ requested[1] = <<"G", "1">>
       /\ requested[256] = <<"G", "2", "5", "6">>
       /\ <<"G", "0">> \notin Range(requested)
       /\ <<"G", "2", "5", "7">> \notin Range(requested)
       /\ \A k \in 1..Len(requested) : requested[k][1] = "G"
  /\ Done("pick_channels") =>
       /\ Range(raw.ch_names) = Range(requested) \cap Range(disk.ecog.ch_names)
       /\ Cardinality(Range(raw.ch_names)) = Len(raw.ch_names)
  /\ Done("get_montage") => DOMAIN montage.ch_pos \subseteq Range(raw.ch_names)
  /\ Done("plot_alignment") => fig.sensors \subseteq Range(raw.ch_names)
  /\ Done("snapshot_brain_montage") => DOMAIN xy \subseteq Range(raw.ch_names)
  /\ Done("xy_pts") => Len(xy_pts) = Len(raw.ch_names)
  /\ Done("beta_power") => beta_power.ch_names = raw.ch_names

\* C6 witness: the file held more than the grid, and beta power was computed
\* for the 256 picked channels
C6_Witness ==
  /\ Done("beta_max")
  /\ Len(raw.ch_names) = 256
  /\ Len(disk.ecog.ch_names) > 256
  /\ Len(beta_power.ch_names) = 256

====
